---- MODULE Spec2Model ----
(***************************************************************************)
(* Model of the exdateutil_rrule NIF layer (native/exdateutil_rrule/src/    *)
(* lib.rs): string_to_rrule, rrule_to_string, validate_rrule and the        *)
(* conversion properties_to_rrule, together with the parts of the chrono    *)
(* and rrule crates those functions call.                                   *)
(*                                                                          *)
(* RRULE text is a sequence of segments [key, val]: the text split on ';',  *)
(* '=' and ','.  Every token is a string.  A Result is a record with an     *)
(* `ok` flag; an Option is a sequence of length 0 or 1.                     *)
(***************************************************************************)
EXTENDS Integers, Sequences, FiniteSets, TLC

VARIABLES pc, op, arg, outcome, trace, held

vars == <<pc, op, arg, outcome, trace, held>>

\* Longest by_month / by_weekday / BY* list the inputs carry.
MaxLen == 2

Ok(v) == [ok |-> TRUE, val |-> v]
Err(e) == [ok |-> FALSE, err |-> e]

SeqsUpTo(S, n) == UNION {[1..k -> S] : k \in 0..n}

(***************************************************************************)
(* chrono::Weekday and rrule::Frequency.  A weekday is its number of days   *)
(* from Monday (0..6); a frequency is its discriminant (Yearly = 0 ..       *)
(* Secondly = 6).                                                           *)
(***************************************************************************)
Weekdays == 0..6
Frequencies == 0..6

\* Debug and Display of chrono::Weekday: "Mon" .. "Sun".
WeekdayName(w) == <<"Mon", "Tue", "Wed", "Thu", "Fri", "Sat", "Sun">>[w + 1]

\* The long names chrono's FromStr also accepts.
WeekdayLongName(w) ==
  <<"Monday", "Tuesday", "Wednesday", "Thursday", "Friday", "Saturday", "Sunday">>[w + 1]

\* The lower-case spellings (chrono compares case-insensitively).
WeekdayLowerName(w) == <<"mon", "tue", "wed", "thu", "fri", "sat", "sun">>[w + 1]

\* <str>.parse::<rrule::Weekday>(): chrono's FromStr for Weekday accepts the
\* short or the long English name, in any case, and nothing else.
WeekdayFromStr(s) ==
  LET hit == {w \in Weekdays :
                s \in {WeekdayName(w), WeekdayLongName(w), WeekdayLowerName(w)}}
  IN IF hit = {} THEN Err("ParseWeekdayError") ELSE Ok(CHOOSE w \in hit : TRUE)

\* The two-letter RFC 5545 code the rrule crate prints (weekday_to_str).
WeekdayCode(w) == <<"MO", "TU", "WE", "TH", "FR", "SA", "SU">>[w + 1]

\* The rrule crate's str_to_weekday: the two-letter code, upper-cased first.
WeekdayLowerCode(w) == <<"mo", "tu", "we", "th", "fr", "sa", "su">>[w + 1]

StrToWeekday(s) ==
  LET hit == {w \in Weekdays : s \in {WeekdayCode(w), WeekdayLowerCode(w)}}
  IN IF hit = {} THEN Err("InvalidWeekday") ELSE Ok(CHOOSE w \in hit : TRUE)

\* format!("{:?}", freq): the derived Debug of rrule::Frequency.
FrequencyDebug(f) ==
  <<"Yearly", "Monthly", "Weekly", "Daily", "Hourly", "Minutely", "Secondly">>[f + 1]

\* Display of rrule::Frequency, the token after FREQ=.
FrequencyDisplay(f) ==
  <<"YEARLY", "MONTHLY", "WEEKLY", "DAILY", "HOURLY", "MINUTELY", "SECONDLY">>[f + 1]

FrequencyLower(f) ==
  <<"yearly", "monthly", "weekly", "daily", "hourly", "minutely", "secondly">>[f + 1]

\* Frequency::from_str: the RFC token, upper-cased first.
FrequencyFromStr(s) ==
  LET hit == {f \in Frequencies : s \in {FrequencyDisplay(f), FrequencyLower(f)}}
  IN IF hit = {} THEN Err("InvalidFrequency") ELSE Ok(CHOOSE f \in hit : TRUE)

(***************************************************************************)
(* Numbers in text.  A numeric token is the decimal form of an integer;     *)
(* the sample values are the ones the inputs below use.                     *)
(***************************************************************************)
NumVals == {-1, 0, 1, 2, 5, 6, 12, 13, 20, 24, 30, 31, 32, 54, 60, 99, 100, 400}

\* <str>.parse::<T>() for an integer type T with the values lo..hi.
ParseInt(s, lo, hi) ==
  IF \E n \in NumVals : ToString(n) = s /\ n >= lo /\ n <= hi
  THEN Ok(CHOOSE n \in NumVals : ToString(n) = s)
  ELSE Err("ParseIntError")

U8Max == 255
I8Min == -128
I8Max == 127
U16Max == 65535
I16Min == -32768
I16Max == 32767
I32Max == 2147483647
I32Min == -I32Max - 1

\* The widest value a u32 token is compared with: every number of the inputs
\* is below 2^31, so the u32 range 0..2^32-1 is cut to what they can reach.
U32Top == I32Max

(***************************************************************************)
(* Timestamps.  An instant is an index into the sample timestamps; a        *)
(* DateTime<Tz> is an instant with its time zone (Tz::UTC or Tz::LOCAL,     *)
(* the local zone being at offset zero).                                    *)
(***************************************************************************)
Instants == 1..2

IcalStamp(i) == <<"20230201T000000", "20230601T000000">>[i]
Rfc3339Stamp(i) == <<"2023-02-01T00:00:00", "2023-06-01T00:00:00">>[i]

DateTimes == [inst : Instants, tz : {"UTC", "Local"}]

\* DateTime::parse_from_rfc3339: date, 'T', time and a zone ("Z" or an offset).
ParseFromRfc3339(s) ==
  LET hit == {i \in Instants : s \in {Rfc3339Stamp(i) \o "Z", Rfc3339Stamp(i) \o "+00:00"}}
  IN IF hit = {} THEN Err("ParseError") ELSE Ok(CHOOSE i \in hit : TRUE)

\* dt.with_timezone(&Tz::UTC)
WithTimezoneUtc(i) == [inst |-> i, tz |-> "UTC"]

\* The rrule crate's datetime_to_ical_format: a trailing Z for UTC, none for local time.
DatetimeToIcalFormat(dt) == IcalStamp(dt.inst) \o (IF dt.tz = "UTC" THEN "Z" ELSE "")

\* The rrule crate's parse of an UNTIL value.
DatestringToDate(s) ==
  LET hit == {dt \in DateTimes : DatetimeToIcalFormat(dt) = s}
  IN IF hit = {} THEN Err("InvalidUntil") ELSE Ok(CHOOSE dt \in hit : TRUE)

(***************************************************************************)
(* The rrule crate: NWeekday, RRule<Unvalidated>, its FromStr and Display.  *)
(***************************************************************************)
Every(w) == [tag |-> "Every", wd |-> w]
Nth(n, w) == [tag |-> "Nth", n |-> n, wd |-> w]

\* The ordinals a BYDAY token of the inputs carries.
NthVals == {-1, 0, 1, 2}

\* A BYDAY token: a weekday code, with or without a signed ordinal before it.
NWeekdayFromStr(s) ==
  LET plain == {w \in Weekdays : s = WeekdayCode(w)}
      nth == {x \in NthVals \X Weekdays : s = ToString(x[1]) \o WeekdayCode(x[2])}
  IN IF plain # {} THEN Ok(Every(CHOOSE w \in plain : TRUE))
     ELSE IF nth # {}
       THEN LET x == CHOOSE x \in nth : TRUE
            IN IF x[1] = 0 THEN Ok(Every(x[2])) ELSE Ok(Nth(x[1], x[2]))
     ELSE Err("InvalidWeekday")

\* Display of NWeekday: the ordinal is written unless it is 1.
NWeekdayDisplay(d) ==
  IF d.tag = "Every" THEN WeekdayCode(d.wd)
  ELSE IF d.n # 1 THEN ToString(d.n) \o WeekdayCode(d.wd)
  ELSE WeekdayCode(d.wd)

\* RRule::new(freq): interval 1, week start Monday, nothing else set.
RRuleNew(f) ==
  [freq |-> f, interval |-> 1, count |-> <<>>, until |-> <<>>, week_start |-> 0,
   by_set_pos |-> <<>>, by_month |-> <<>>, by_month_day |-> <<>>,
   by_year_day |-> <<>>, by_week_no |-> <<>>, by_weekday |-> <<>>,
   by_hour |-> <<>>, by_minute |-> <<>>, by_second |-> <<>>]

RRuleKeys ==
  {"FREQ", "INTERVAL", "COUNT", "UNTIL", "WKST", "BYSETPOS", "BYMONTH", "BYMONTHDAY",
   "BYYEARDAY", "BYWEEKNO", "BYDAY", "BYHOUR", "BYMINUTE", "BYSECOND"}

HasKey(text, key) == \E i \in 1..Len(text) : text[i].key = key

\* The value of the segment with this key (the text holds a key at most once).
ValueOf(text, key) == text[CHOOSE i \in 1..Len(text) : text[i].key = key].val

\* parse_str_to_vec: every token parses as the field's integer type and is accepted.
\* The values of a list of results, when every one is Ok.
AllOk(rs, error) ==
  IF \A i \in 1..Len(rs) : rs[i].ok
  THEN Ok([i \in 1..Len(rs) |-> rs[i].val])
  ELSE Err(error)

\* One token of a numeric list: it parses as the field's integer type and
\* its value is among the accepted ones.
ParseAccepted(tok, lo, hi, accepted) ==
  IF ParseInt(tok, lo, hi).ok /\ ParseInt(tok, lo, hi).val \in accepted
  THEN ParseInt(tok, lo, hi)
  ELSE Err("InvalidValue")

\* parse_str_to_vec: every token parses and is accepted.
ParseStrToVec(toks, lo, hi, accepted) ==
  AllOk([i \in 1..Len(toks) |-> ParseAccepted(toks[i], lo, hi, accepted)], "InvalidValue")

\* parse_weekdays: every token is an NWeekday.
ParseWeekdays(toks) ==
  AllOk([i \in 1..Len(toks) |-> NWeekdayFromStr(toks[i])], "InvalidWeekday")

\* A key's parsed value, or the default when the text does not hold the key.
Prop(text, key, parsed, default) == IF HasKey(text, key) THEN parsed ELSE Ok(default)

\* An Option from a Result: Ok(v) becomes Ok(Some(v)).
Some(r) == IF r.ok THEN Ok(<<r.val>>) ELSE r

\* The properties of a text, each parsed (or defaulted), in the order they are read.
ParsedProps(text) ==
  <<[key |-> "FREQ",
     r |-> IF HasKey(text, "FREQ") THEN FrequencyFromStr(ValueOf(text, "FREQ")[1])
           ELSE Err("MissingProperty")],
    [key |-> "INTERVAL",
     r |-> Prop(text, "INTERVAL", ParseInt(ValueOf(text, "INTERVAL")[1], 0, U16Max), 1)],
    [key |-> "COUNT",
     r |-> Prop(text, "COUNT", Some(ParseInt(ValueOf(text, "COUNT")[1], 0, U32Top)), <<>>)],
    [key |-> "UNTIL",
     r |-> Prop(text, "UNTIL", Some(DatestringToDate(ValueOf(text, "UNTIL")[1])), <<>>)],
    [key |-> "WKST",
     r |-> Prop(text, "WKST", StrToWeekday(ValueOf(text, "WKST")[1]), 0)],
    [key |-> "BYSETPOS",
     r |-> Prop(text, "BYSETPOS",
                ParseStrToVec(ValueOf(text, "BYSETPOS"), I32Min, I32Max, I32Min..I32Max), <<>>)],
    [key |-> "BYMONTH",
     r |-> Prop(text, "BYMONTH",
                ParseStrToVec(ValueOf(text, "BYMONTH"), 0, U8Max, 1..12), <<>>)],
    [key |-> "BYMONTHDAY",
     r |-> Prop(text, "BYMONTHDAY",
                ParseStrToVec(ValueOf(text, "BYMONTHDAY"), I8Min, I8Max, -31..31), <<>>)],
    [key |-> "BYYEARDAY",
     r |-> Prop(text, "BYYEARDAY",
                ParseStrToVec(ValueOf(text, "BYYEARDAY"), I16Min, I16Max, -366..366), <<>>)],
    [key |-> "BYWEEKNO",
     r |-> Prop(text, "BYWEEKNO",
                ParseStrToVec(ValueOf(text, "BYWEEKNO"), I8Min, I8Max, -53..53), <<>>)],
    [key |-> "BYDAY",
     r |-> Prop(text, "BYDAY", ParseWeekdays(ValueOf(text, "BYDAY")), <<>>)],
    [key |-> "BYHOUR",
     r |-> Prop(text, "BYHOUR", ParseStrToVec(ValueOf(text, "BYHOUR"), 0, U8Max, 0..23), <<>>)],
    [key |-> "BYMINUTE",
     r |-> Prop(text, "BYMINUTE", ParseStrToVec(ValueOf(text, "BYMINUTE"), 0, U8Max, 0..59), <<>>)],
    [key |-> "BYSECOND",
     r |-> Prop(text, "BYSECOND", ParseStrToVec(ValueOf(text, "BYSECOND"), 0, U8Max, 0..59), <<>>)]>>

\* The smallest member of a non-empty set of indices.
First(idx) == CHOOSE i \in idx : \A j \in idx : i <= j

\* The rule, or the error of the first property that failed.
RRuleFromProps(steps) ==
  IF \E i \in 1..Len(steps) : ~steps[i].r.ok
  THEN Err(steps[First({i \in 1..Len(steps) : ~steps[i].r.ok})].r.err
           \o "(" \o steps[First({i \in 1..Len(steps) : ~steps[i].r.ok})].key \o ")")
  ELSE Ok([freq |-> steps[1].r.val, interval |-> steps[2].r.val, count |-> steps[3].r.val,
           until |-> steps[4].r.val, week_start |-> steps[5].r.val,
           by_set_pos |-> steps[6].r.val, by_month |-> steps[7].r.val,
           by_month_day |-> steps[8].r.val, by_year_day |-> steps[9].r.val,
           by_week_no |-> steps[10].r.val, by_weekday |-> steps[11].r.val,
           by_hour |-> steps[12].r.val, by_minute |-> steps[13].r.val,
           by_second |-> steps[14].r.val])

\* <str>.parse::<RRule<Unvalidated>>(): a key that is no RRULE property is an
\* error; then the properties are read and the first that fails is the error.
RRuleFromStr(text) ==
  IF \E i \in 1..Len(text) : text[i].key \notin RRuleKeys
  THEN Err("UnrecognizedParameter("
           \o text[First({i \in 1..Len(text) : text[i].key \notin RRuleKeys})].key \o ")")
  ELSE RRuleFromProps(ParsedProps(text))

Segment(key, val) == [key |-> key, val |-> val]

NumTokens(s) == [i \in 1..Len(s) |-> ToString(s[i])]

ListSegment(key, s) == IF s = <<>> THEN <<>> ELSE <<Segment(key, NumTokens(s))>>

\* format!("{}", rrule): Display of RRule.  FREQ always; INTERVAL unless 1;
\* WKST unless Monday; a list unless empty.
RRuleDisplay(r) ==
  <<Segment("FREQ", <<FrequencyDisplay(r.freq)>>)>>
  \o (IF r.until # <<>> THEN <<Segment("UNTIL", <<DatetimeToIcalFormat(r.until[1])>>)>> ELSE <<>>)
  \o (IF r.count # <<>> THEN <<Segment("COUNT", <<ToString(r.count[1])>>)>> ELSE <<>>)
  \o (IF r.interval # 1 THEN <<Segment("INTERVAL", <<ToString(r.interval)>>)>> ELSE <<>>)
  \o (IF r.week_start # 0 THEN <<Segment("WKST", <<WeekdayCode(r.week_start)>>)>> ELSE <<>>)
  \o ListSegment("BYSETPOS", r.by_set_pos)
  \o ListSegment("BYMONTH", r.by_month)
  \o ListSegment("BYMONTHDAY", r.by_month_day)
  \o ListSegment("BYYEARDAY", r.by_year_day)
  \o ListSegment("BYWEEKNO", r.by_week_no)
  \o (IF r.by_weekday # <<>>
       THEN <<Segment("BYDAY", [i \in 1..Len(r.by_weekday) |-> NWeekdayDisplay(r.by_weekday[i])])>>
       ELSE <<>>)
  \o ListSegment("BYHOUR", r.by_hour)
  \o ListSegment("BYMINUTE", r.by_minute)
  \o ListSegment("BYSECOND", r.by_second)

\* The ranges RRule::validate checks, field by field in this order.
RangeChecks(r) ==
  <<[field |-> "BYSETPOS", ok |-> \A i \in 1..Len(r.by_set_pos) :
        r.by_set_pos[i] \in -366..366 /\ r.by_set_pos[i] # 0],
    [field |-> "BYMONTH", ok |-> \A i \in 1..Len(r.by_month) : r.by_month[i] \in 1..12],
    [field |-> "BYMONTHDAY", ok |-> \A i \in 1..Len(r.by_month_day) :
        r.by_month_day[i] \in -31..31],
    [field |-> "BYYEARDAY", ok |-> \A i \in 1..Len(r.by_year_day) :
        r.by_year_day[i] \in -366..366],
    [field |-> "BYWEEKNO", ok |-> \A i \in 1..Len(r.by_week_no) :
        r.by_week_no[i] \in -53..53],
    [field |-> "BYHOUR", ok |-> \A i \in 1..Len(r.by_hour) : r.by_hour[i] \in 0..23],
    [field |-> "BYMINUTE", ok |-> \A i \in 1..Len(r.by_minute) : r.by_minute[i] \in 0..59],
    [field |-> "BYSECOND", ok |-> \A i \in 1..Len(r.by_second) : r.by_second[i] \in 0..59]>>

\* rrule.validate(dt_start): UNTIL is not before the start, every list is in
\* its range, and the rule passes the engine's cross-field checks (`consistent`:
\* the verdict of the checks that depend on the calendar).
FirstFailedField(checks) == checks[First({i \in 1..Len(checks) : ~checks[i].ok})].field

RRuleValidate(r, dt_start, consistent) ==
  IF r.until # <<>> /\ r.until[1].inst < dt_start.inst THEN Err("UntilBeforeStart")
  ELSE IF \E i \in 1..Len(RangeChecks(r)) : ~RangeChecks(r)[i].ok
    THEN Err("InvalidFieldValue(" \o FirstFailedField(RangeChecks(r)) \o ")")
  ELSE IF ~consistent THEN Err("RuleInconsistent")
  ELSE Ok("validated")

(***************************************************************************)
(* lib.rs: the types the NIFs exchange with Elixir.                         *)
(***************************************************************************)
\* ExternalNWeekday
ExtTuple(n, s) == [tag |-> "Tuple", n |-> n, s |-> s]
ExtString(s) == [tag |-> "String", s |-> s]

\* MaybeCount and MaybeDateTime
MaybeNone == [tag |-> "None"]
CountSome(n) == [tag |-> "Some", n |-> n]
DateTimeSome(dt) == [tag |-> "Some", dt |-> dt]

\* Elixir terms: nil, an integer, a binary, an atom.
NilTerm == [k |-> "nil"]
IntTerm(n) == [k |-> "int", n |-> n]
StrTerm(x) == [k |-> "str", s |-> x]
AtomTerm(a) == [k |-> "atom", a |-> a]

\* Decoder for MaybeCount
MaybeCountDecode(term) ==
  IF term = NilTerm THEN [tag |-> "ok", val |-> MaybeNone]
  ELSE IF term.k = "int" /\ term.n \in 0..U32Top THEN [tag |-> "ok", val |-> CountSome(term.n)]
  ELSE [tag |-> "badarg"]

\* Decoder for MaybeDateTime: a binary is parsed as RFC 3339 and the result unwrapped.
MaybeDateTimeDecode(term) ==
  IF term = NilTerm THEN [tag |-> "ok", val |-> MaybeNone]
  ELSE IF term.k = "str"
    THEN LET r == ParseFromRfc3339(term.s)
         IN IF r.ok THEN [tag |-> "ok", val |-> DateTimeSome(WithTimezoneUtc(r.val))]
            ELSE [tag |-> "panic"]
  ELSE [tag |-> "badarg"]

\* The derived decoder of Properties: the fields in declaration order, count
\* before until; the first field that fails to decode ends the call.
PropertiesDecode(pt) ==
  LET c == MaybeCountDecode(pt.count)
      u == MaybeDateTimeDecode(pt.until)
  IN IF c.tag # "ok" THEN c
     ELSE IF u.tag # "ok" THEN u
     ELSE [tag |-> "ok", val |-> [pt EXCEPT !.count = c.val, !.until = u.val]]

to_external_n_weekday(d) ==
  IF d.tag = "Nth" THEN ExtTuple(d.n, WeekdayName(d.wd)) ELSE ExtString(WeekdayName(d.wd))

\* to_maybe_count with zero standing for absence.
to_maybe_count_ZeroIsNone(count) ==
  IF count # <<>> /\ count[1] # 0 THEN CountSome(count[1]) ELSE MaybeNone

to_maybe_count(count) == IF count # <<>> THEN CountSome(count[1]) ELSE MaybeNone

to_maybe_datetime(dt) == IF dt # <<>> THEN DateTimeSome(dt[1]) ELSE MaybeNone

NifError(prefix, cause) == Err([prefix |-> prefix, cause |-> cause])

\* The Properties built from a parsed rule.
PropertiesOf(rrule) ==
  [freq |-> FrequencyDebug(rrule.freq),
   interval |-> rrule.interval,
   count |-> to_maybe_count(rrule.count),
   until |-> to_maybe_datetime(rrule.until),
   week_start |-> WeekdayName(rrule.week_start),
   by_set_pos |-> rrule.by_set_pos,
   by_month |-> rrule.by_month,
   by_month_day |-> rrule.by_month_day,
   by_year_day |-> rrule.by_year_day,
   by_week_no |-> rrule.by_week_no,
   by_weekday |-> [i \in 1..Len(rrule.by_weekday) |->
                     to_external_n_weekday(rrule.by_weekday[i])],
   by_hour |-> rrule.by_hour,
   by_minute |-> rrule.by_minute,
   by_second |-> rrule.by_second]

\* The match on the parse result.
ParseResult(parsed) ==
  IF parsed.ok THEN Ok(PropertiesOf(parsed.val))
  ELSE NifError("Error parsing rrule", parsed.err)

string_to_rrule(rrule_string) == ParseResult(RRuleFromStr(rrule_string))

\* FrequencyMatch comparing without regard to case.
FrequencyMatchAnyCase(s) ==
  LET hit == {f \in Frequencies :
                s \in {FrequencyDebug(f), FrequencyDisplay(f), FrequencyLower(f)}}
  IN IF hit = {} THEN Err(s) ELSE Ok(CHOOSE f \in hit : TRUE)

\* The match on p.freq: the seven names, as written.
FrequencyMatch(s) ==
  LET hit == {f \in Frequencies : s = FrequencyDebug(f)}
  IN IF hit = {} THEN Err(s) ELSE Ok(CHOOSE f \in hit : TRUE)

\* MonthTryFrom without the range check.
MonthTryFromUnchecked(m) == Ok(m - 1)

\* chrono's Month::try_from(u8): 1..12 is January..December (0..11 here).
MonthTryFrom(m) == IF m \in 1..12 THEN Ok(m - 1) ELSE Err("OutOfRange")

\* chrono's Month::number_from_month
NumberFromMonth(month) == month + 1

RECURSIVE CollectMonths(_, _, _)
\* p.by_month.iter().map(Month::try_from).collect(): stops at the first Err.
CollectMonths(s, i, acc) ==
  IF i > Len(s) THEN Ok(acc)
  ELSE LET r == MonthTryFrom(s[i])
       IN IF r.ok THEN CollectMonths(s, i + 1, Append(acc, r.val)) ELSE r

\* The closure mapped over p.by_weekday.
ToNWeekday(weekday) ==
  LET w == WeekdayFromStr(weekday.s)
  IN IF ~w.ok THEN Err("Invalid weekday: " \o weekday.s)
     ELSE IF weekday.tag = "Tuple" THEN Ok(Nth(weekday.n, w.val))
     ELSE Ok(Every(w.val))

\* CollectWeekdays going through the whole list and keeping the last error.
CollectWeekdaysLastError(s, i, acc) ==
  IF \A j \in i..Len(s) : ToNWeekday(s[j]).ok
  THEN Ok(acc \o [j \in 1..(Len(s) - i + 1) |-> ToNWeekday(s[j + i - 1]).val])
  ELSE ToNWeekday(s[CHOOSE j \in i..Len(s) :
                      /\ ~ToNWeekday(s[j]).ok
                      /\ \A k \in i..Len(s) : ~ToNWeekday(s[k]).ok => k <= j])

RECURSIVE CollectWeekdays(_, _, _)
\* p.by_weekday.iter().map(..).collect(): stops at the first Err.
CollectWeekdays(s, i, acc) ==
  IF i > Len(s) THEN Ok(acc)
  ELSE LET r == ToNWeekday(s[i])
       IN IF r.ok THEN CollectWeekdays(s, i + 1, Append(acc, r.val)) ELSE r

RECURSIVE JoinNums(_, _)
JoinNums(s, i) ==
  IF i > Len(s) THEN ""
  ELSE IF i = Len(s) THEN ToString(s[i])
  ELSE ToString(s[i]) \o ", " \o JoinNums(s, i + 1)

\* format!("{:?}", vec) of a Vec<u8>
DebugVec(s) == "[" \o JoinNums(s, 1) \o "]"

\* InvalidMonthMessage naming the first value that does not convert.
InvalidMonthMessageValue(by_month) ==
  "Invalid month: "
    \o ToString(by_month[CHOOSE i \in 1..Len(by_month) :
                            /\ ~MonthTryFrom(by_month[i]).ok
                            /\ \A j \in 1..(i - 1) : MonthTryFrom(by_month[j]).ok])

\* The error message of a by_month list that does not convert.
InvalidMonthMessage(by_month) == "Invalid month: " \o DebugVec(by_month)

\* The builder calls and the two `if let`s that end properties_to_rrule.
BuildRRule(p, frequency, week_start, by_month, by_weekday) ==
  [RRuleNew(frequency) EXCEPT
     !.interval = p.interval,
     !.week_start = week_start,
     !.by_set_pos = p.by_set_pos,
     !.by_month = [i \in 1..Len(by_month) |-> NumberFromMonth(by_month[i])],
     !.by_month_day = p.by_month_day,
     !.by_year_day = p.by_year_day,
     !.by_week_no = p.by_week_no,
     !.by_weekday = by_weekday,
     !.by_hour = p.by_hour,
     !.by_minute = p.by_minute,
     !.by_second = p.by_second,
     !.count = IF p.count.tag = "Some" THEN <<p.count.n>> ELSE <<>>,
     !.until = IF p.until.tag = "Some" THEN <<p.until.dt>> ELSE <<>>]

\* properties_to_rrule checking by_month and by_weekday before freq and week_start.
properties_to_rrule_ListsFirst(p) ==
  LET frequency == FrequencyMatch(p.freq)
      week_start == WeekdayFromStr(p.week_start)
      by_month_result == CollectMonths(p.by_month, 1, <<>>)
      by_weekday_result == CollectWeekdays(p.by_weekday, 1, <<>>)
  IN IF ~by_month_result.ok THEN Err(InvalidMonthMessage(p.by_month))
     ELSE IF ~by_weekday_result.ok THEN Err(by_weekday_result.err)
     ELSE IF ~frequency.ok THEN Err("Invalid frequency: " \o frequency.err)
     ELSE IF ~week_start.ok THEN Err("Invalid week start: " \o p.week_start)
     ELSE Ok(BuildRRule(p, frequency.val, week_start.val, by_month_result.val,
                        by_weekday_result.val))

properties_to_rrule(p) ==
  LET frequency == FrequencyMatch(p.freq)
      week_start == WeekdayFromStr(p.week_start)
      by_month_result == CollectMonths(p.by_month, 1, <<>>)
      by_weekday_result == CollectWeekdays(p.by_weekday, 1, <<>>)
  IN IF ~frequency.ok THEN Err("Invalid frequency: " \o frequency.err)
     ELSE IF ~week_start.ok THEN Err("Invalid week start: " \o p.week_start)
     ELSE IF ~by_month_result.ok THEN Err(InvalidMonthMessage(p.by_month))
     ELSE IF ~by_weekday_result.ok THEN Err(by_weekday_result.err)
     ELSE Ok(BuildRRule(p, frequency.val, week_start.val, by_month_result.val,
                        by_weekday_result.val))

\* The functions below also give the steps they performed, in order.
rrule_to_string(p) ==
  LET c == properties_to_rrule(p)
  IN IF c.ok
     THEN [res |-> Ok(RRuleDisplay(c.val)), steps |-> <<"properties_to_rrule", "format">>]
     ELSE [res |-> NifError("Error converting properties to rrule", c.err),
           steps |-> <<"properties_to_rrule">>]

\* validate_rrule converting the Properties before it looks at dt_start.
validate_rrule_ConvertFirst(p, dt_start, consistent) ==
  LET start == ParseFromRfc3339(dt_start)
      c == properties_to_rrule(p)
      v == RRuleValidate(c.val, WithTimezoneUtc(start.val), consistent)
  IN IF ~c.ok
     THEN [res |-> NifError("Error converting properties to rrule", c.err),
           steps |-> <<"properties_to_rrule">>]
     ELSE IF ~start.ok
       THEN [res |-> NifError("Invalid datetime", dt_start),
             steps |-> <<"properties_to_rrule", "parse_from_rfc3339">>]
     ELSE IF ~v.ok
       THEN [res |-> NifError("Invalid rrule", v.err),
             steps |-> <<"properties_to_rrule", "parse_from_rfc3339", "validate">>]
     ELSE [res |-> Ok("ok"),
           steps |-> <<"properties_to_rrule", "parse_from_rfc3339", "validate">>]

\* validate_rrule dropping the engine's error.
validate_rrule_DropEngineError(p, dt_start, consistent) ==
  LET start == ParseFromRfc3339(dt_start)
      c == properties_to_rrule(p)
  IN IF ~start.ok
     THEN [res |-> NifError("Invalid datetime", dt_start),
           steps |-> <<"parse_from_rfc3339">>]
     ELSE IF ~c.ok
       THEN [res |-> NifError("Error converting properties to rrule", c.err),
             steps |-> <<"parse_from_rfc3339", "properties_to_rrule">>]
     ELSE [res |-> Ok("ok"),
           steps |-> <<"parse_from_rfc3339", "properties_to_rrule", "validate">>]

validate_rrule(p, dt_start, consistent) ==
  LET start == ParseFromRfc3339(dt_start)
      c == properties_to_rrule(p)
      v == RRuleValidate(c.val, WithTimezoneUtc(start.val), consistent)
  IN IF ~start.ok
     THEN [res |-> NifError("Invalid datetime", dt_start),
           steps |-> <<"parse_from_rfc3339">>]
     ELSE IF ~c.ok
       THEN [res |-> NifError("Error converting properties to rrule", c.err),
             steps |-> <<"parse_from_rfc3339", "properties_to_rrule">>]
     ELSE IF ~v.ok
       THEN [res |-> NifError("Invalid rrule", v.err),
             steps |-> <<"parse_from_rfc3339", "properties_to_rrule", "validate">>]
     ELSE [res |-> Ok("ok"),
           steps |-> <<"parse_from_rfc3339", "properties_to_rrule", "validate">>]

(***************************************************************************)
(* The inputs the callers pass.                                             *)
(***************************************************************************)
ListFields ==
  {"by_set_pos", "by_month", "by_month_day", "by_year_day", "by_week_no",
   "by_hour", "by_minute", "by_second"}

\* The RRULE key of each numeric list field.
ListKey ==
  [by_set_pos |-> "BYSETPOS", by_month |-> "BYMONTH", by_month_day |-> "BYMONTHDAY",
   by_year_day |-> "BYYEARDAY", by_week_no |-> "BYWEEKNO", by_hour |-> "BYHOUR",
   by_minute |-> "BYMINUTE", by_second |-> "BYSECOND"]

\* Per list field, a value inside and a value outside its legal range.
ListVals ==
  [by_set_pos |-> {-1, 400}, by_month |-> {0, 12}, by_month_day |-> {31, 32},
   by_year_day |-> {100, 400}, by_week_no |-> {20, 54}, by_hour |-> {5, 99},
   by_minute |-> {30, 60}, by_second |-> {30, 60}]

FreqNames == {"Daily", "Monthly", "DAILY"}
WeekStartNames == {"Mon", "Sun", "MO"}
MonthVals == {6, 13}
ExtWeekdays == {ExtString("Mon"), ExtTuple(-1, "Fri"), ExtString("XX"), ExtTuple(2, "YY")}
CountTerms == {NilTerm, IntTerm(0), IntTerm(2), AtomTerm("infinity")}
UntilTerms ==
  {NilTerm, StrTerm("2023-02-01T00:00:00Z"), StrTerm("2023-06-01T00:00:00Z"),
   StrTerm("not-a-date"), IntTerm(5)}
StartStrings == {"2023-02-01T00:00:00Z", "2023-06-01T00:00:00+00:00", "yesterday"}

BaseProps ==
  [freq |-> "Daily", interval |-> 1, count |-> NilTerm, until |-> NilTerm,
   week_start |-> "Mon", by_set_pos |-> <<>>, by_month |-> <<>>, by_month_day |-> <<>>,
   by_year_day |-> <<>>, by_week_no |-> <<>>, by_weekday |-> <<>>, by_hour |-> <<>>,
   by_minute |-> <<>>, by_second |-> <<>>]

\* Properties terms that vary the fields properties_to_rrule checks.
CoreProps ==
  {[BaseProps EXCEPT !.freq = f, !.week_start = w, !.by_month = m, !.by_weekday = d] :
     f \in FreqNames, w \in WeekStartNames,
     m \in SeqsUpTo(MonthVals, MaxLen), d \in SeqsUpTo(ExtWeekdays, MaxLen)}

\* Properties terms that vary the scalar fields.
ScalarProps ==
  {[BaseProps EXCEPT !.freq = f, !.interval = n, !.count = c, !.until = u] :
     f \in {"Monthly", "monthly"}, n \in {0, 2}, c \in CountTerms, u \in UntilTerms}

\* Properties terms that set one numeric list.
ListProps ==
  UNION {{[BaseProps EXCEPT ![fld] = v] : v \in SeqsUpTo(ListVals[fld], MaxLen)} :
           fld \in ListFields}

PropsTerms == CoreProps \cup ScalarProps \cup ListProps

SegmentIf(key, val) == IF val = <<>> THEN <<>> ELSE <<Segment(key, val)>>

CoreTexts ==
  {SegmentIf("BYDAY", d) \o SegmentIf("FREQ", f) \o SegmentIf("WKST", w)
     \o SegmentIf("BYMONTH", m) :
     f \in {<<>>, <<"DAILY">>, <<"monthly">>, <<"BOGUS">>},
     w \in {<<>>, <<"SU">>, <<"XX">>},
     m \in SeqsUpTo({"6", "13"}, MaxLen),
     d \in SeqsUpTo({"MO", "-1FR", "1MO", "ZZ"}, MaxLen)}

ScalarTexts ==
  {SegmentIf("COUNT", c) \o <<Segment("FREQ", <<"WEEKLY">>)>> \o SegmentIf("INTERVAL", n)
     \o SegmentIf("UNTIL", u) \o SegmentIf("X-FOO", x) :
     c \in {<<>>, <<"0">>, <<"2">>, <<"many">>},
     n \in {<<>>, <<"1">>, <<"2">>},
     u \in {<<>>, <<"20230601T000000Z">>, <<"20230201T000000">>, <<"tomorrow">>},
     x \in {<<>>, <<"1">>}}

ListTexts ==
  UNION {{<<Segment("FREQ", <<"YEARLY">>), Segment(ListKey[fld], NumTokens(v))>> :
            v \in SeqsUpTo(ListVals[fld], MaxLen) \ {<<>>}} : fld \in ListFields}

Texts == CoreTexts \cup ScalarTexts \cup ListTexts

(***************************************************************************)
(* The calls.  Each NIF call decodes its arguments and runs the function;   *)
(* the caller may hand a parsed Properties back to rrule_to_string and the  *)
(* text it gets to string_to_rrule.                                         *)
(***************************************************************************)
Returned(r) == [tag |-> "returned", res |-> r]

Init ==
  /\ pc = "idle"
  /\ op = "none"
  /\ arg = <<>>
  /\ outcome = [tag |-> "none"]
  /\ trace = <<>>
  /\ held = <<>>

StringToRrule ==
  /\ pc = "idle"
  /\ \E text \in Texts :
       LET r == string_to_rrule(text)
       IN /\ arg' = [text |-> text]
          /\ outcome' = Returned(r)
          /\ held' = IF r.ok THEN <<r.val>> ELSE <<>>
  /\ op' = "string_to_rrule"
  /\ trace' = <<"decode", "parse">>
  /\ pc' = "returned"

RruleToString ==
  /\ pc = "idle"
  /\ \E pt \in PropsTerms :
       LET d == PropertiesDecode(pt)
       IN /\ arg' = [p |-> pt]
          /\ IF d.tag = "ok"
             THEN /\ outcome' = Returned(rrule_to_string(d.val).res)
                  /\ trace' = <<"decode">> \o rrule_to_string(d.val).steps
             ELSE /\ outcome' = [tag |-> d.tag]
                  /\ trace' = <<"decode">>
  /\ op' = "rrule_to_string"
  /\ held' = <<>>
  /\ pc' = "returned"

ValidateRrule ==
  /\ pc = "idle"
  /\ \E pt \in PropsTerms, dt_start \in StartStrings, consistent \in BOOLEAN :
       LET d == PropertiesDecode(pt)
       IN /\ arg' = [p |-> pt, dt_start |-> dt_start, consistent |-> consistent]
          /\ IF d.tag = "ok"
             THEN /\ outcome' = Returned(validate_rrule(d.val, dt_start, consistent).res)
                  /\ trace' = <<"decode">> \o validate_rrule(d.val, dt_start, consistent).steps
             ELSE /\ outcome' = [tag |-> d.tag]
                  /\ trace' = <<"decode">>
  /\ op' = "validate_rrule"
  /\ held' = <<>>
  /\ pc' = "returned"

\* The caller passes the Properties it got from string_to_rrule to rrule_to_string.
SerializeParsed ==
  /\ pc = "returned"
  /\ op = "string_to_rrule"
  /\ outcome.res.ok
  /\ arg' = [p |-> held[1]]
  /\ outcome' = Returned(rrule_to_string(held[1]).res)
  /\ trace' = rrule_to_string(held[1]).steps
  /\ op' = "rrule_to_string"
  /\ pc' = "reserialized"
  /\ UNCHANGED held

\* The caller passes the text it got for the parsed Properties to string_to_rrule.
ReparseSerialized ==
  /\ pc = "reserialized"
  /\ outcome.res.ok
  /\ arg' = [text |-> outcome.res.val]
  /\ outcome' = Returned(string_to_rrule(outcome.res.val))
  /\ trace' = <<"parse">>
  /\ op' = "string_to_rrule"
  /\ pc' = "reparsed"
  /\ UNCHANGED held

\* The caller drops the result; every call is independent of the ones before.
Return ==
  /\ pc # "idle"
  /\ pc' = "idle"
  /\ op' = "none"
  /\ arg' = <<>>
  /\ outcome' = [tag |-> "none"]
  /\ trace' = <<>>
  /\ held' = <<>>

Next ==
  \/ StringToRrule
  \/ RruleToString
  \/ ValidateRrule
  \/ SerializeParsed
  \/ ReparseSerialized
  \/ Return

Spec == Init /\ [][Next]_vars

(***************************************************************************)
(* What the claims speak of.                                                *)
(***************************************************************************)
\* A call of rrule_to_string or validate_rrule whose arguments decoded.
Serialized == op = "rrule_to_string" /\ outcome.tag = "returned"
Validated == op = "validate_rrule" /\ outcome.tag = "returned"

\* The Properties value the function of the current call received.
CallProps == IF pc = "reserialized" THEN arg.p ELSE PropertiesDecode(arg.p).val

StartParses == ParseFromRfc3339(arg.dt_start).ok

\* A call that reaches properties_to_rrule.
Constructs == Serialized \/ (Validated /\ StartParses)

SevenNames == {"Secondly", "Minutely", "Hourly", "Daily", "Weekly", "Monthly", "Yearly"}

FreqValid(p) == p.freq \in SevenNames
WeekStartValid(p) == WeekdayFromStr(p.week_start).ok
MonthsValid(p) == \A i \in 1..Len(p.by_month) : p.by_month[i] >= 1 /\ p.by_month[i] <= 12
BadWeekdays(p) == {i \in 1..Len(p.by_weekday) : ~WeekdayFromStr(p.by_weekday[i].s).ok}
WeekdaysValid(p) == BadWeekdays(p) = {}
Constructible(p) == FreqValid(p) /\ WeekStartValid(p) /\ MonthsValid(p) /\ WeekdaysValid(p)

ConvertError(cause) == NifError("Error converting properties to rrule", cause)

IsConvertError(r) == ~r.ok /\ r.err.prefix = "Error converting properties to rrule"

\* The RFC 5545 range of each numeric list.
LegalRange ==
  [by_set_pos |-> (-366..366) \ {0}, by_month |-> 1..12, by_month_day |-> (-31..31) \ {0},
   by_year_day |-> (-366..366) \ {0}, by_week_no |-> (-53..53) \ {0}, by_hour |-> 0..23,
   by_minute |-> 0..59, by_second |-> 0..59]

OutOfRange(p, fld) == \E i \in 1..Len(p[fld]) : p[fld][i] \notin LegalRange[fld]

(***************************************************************************)
(* C1.  Round trip: when string_to_rrule returned f, rrule_to_string(f)     *)
(* succeeds and string_to_rrule of its text returns a value equal to f,     *)
(* field by field.                                                          *)
(***************************************************************************)
C1_RoundTrip ==
  /\ (pc = "reserialized" => outcome.res.ok)
  /\ (pc = "reparsed" => outcome.res.ok /\ outcome.res.val = held[1])

(***************************************************************************)
(* C2.  As claimed: rrule_to_string returns Ok for every Properties.        *)
(***************************************************************************)
C2_SerializeNeverFails == Serialized => outcome.res.ok

\* C2, amended: rrule_to_string returns Ok exactly when freq is one of the seven
\* names, week_start and every by_weekday code parse as a weekday and every
\* by_month value is in 1..12; for any other Properties it returns the
\* conversion error.
C2_SerializeOkIffConstructible ==
  Serialized =>
    /\ outcome.res.ok <=> Constructible(CallProps)
    /\ ~outcome.res.ok => IsConvertError(outcome.res)

C2_Witness ==
  /\ Serialized
  /\ ~outcome.res.ok
  /\ FreqValid(CallProps) /\ WeekStartValid(CallProps) /\ MonthsValid(CallProps)
  /\ ~WeekdaysValid(CallProps)

(***************************************************************************)
(* C3.  No call panics: every call ends with a returned value or a          *)
(* returned error.                                                          *)
(***************************************************************************)
C3_NoPanic == outcome.tag # "panic"

(***************************************************************************)
(* C4.  validate_rrule with a dt_start that is not RFC 3339 returns the     *)
(* invalid-datetime error carrying dt_start, whatever the Properties, and   *)
(* runs neither properties_to_rrule nor the engine's validate.              *)
(***************************************************************************)
C4_InvalidStartFailsFast ==
  (Validated /\ ~StartParses) =>
    /\ outcome.res = NifError("Invalid datetime", arg.dt_start)
    /\ trace = <<"decode", "parse_from_rfc3339">>

C4_Witness ==
  /\ Validated /\ ~StartParses
  /\ ~FreqValid(CallProps) /\ ~MonthsValid(CallProps)
  /\ outcome.res.err.prefix = "Invalid datetime"

(***************************************************************************)
(* C5.  validate_rrule with a parseable start: a Properties that does not   *)
(* convert gives the conversion error and the engine is not consulted; the  *)
(* engine is consulted only after a successful conversion; ok is returned   *)
(* only when the conversion and the engine's validate both succeeded.       *)
(***************************************************************************)
C5_ConstructionErrorsFirst ==
  (Validated /\ StartParses) =>
    /\ ~Constructible(CallProps) =>
          /\ IsConvertError(outcome.res)
          /\ trace = <<"decode", "parse_from_rfc3339", "properties_to_rrule">>
    /\ (\E i \in 1..Len(trace) : trace[i] = "validate") =>
          /\ Constructible(CallProps)
          /\ trace = <<"decode", "parse_from_rfc3339", "properties_to_rrule", "validate">>
    /\ outcome.res.ok =>
          /\ Constructible(CallProps)
          /\ RRuleValidate(properties_to_rrule(CallProps).val,
                           WithTimezoneUtc(ParseFromRfc3339(arg.dt_start).val),
                           arg.consistent).ok

C5_Witness ==
  /\ Validated /\ StartParses
  /\ ~WeekdaysValid(CallProps)
  /\ IsConvertError(outcome.res)

FirstBadMonth(p) ==
  p.by_month[First({i \in 1..Len(p.by_month) : p.by_month[i] \notin 1..12})]

MonthMessages ==
  {"Invalid month: " \o DebugVec(m) :
     m \in SeqsUpTo(MonthVals \cup ListVals.by_month, MaxLen)}

C8_AbsentIsNotZero ==
  /\ (op = "string_to_rrule" /\ pc = "returned" /\ outcome.res.ok) =>
        /\ IF HasKey(arg.text, "COUNT")
           THEN /\ outcome.res.val.count.tag = "Some"
                /\ ToString(outcome.res.val.count.n) = ValueOf(arg.text, "COUNT")[1]
           ELSE outcome.res.val.count = MaybeNone
        /\ IF HasKey(arg.text, "UNTIL")
           THEN /\ outcome.res.val.until.tag = "Some"
                /\ DatetimeToIcalFormat(outcome.res.val.until.dt) = ValueOf(arg.text, "UNTIL")[1]
           ELSE outcome.res.val.until = MaybeNone
  /\ (Constructs /\ Constructible(CallProps)) =>
        /\ properties_to_rrule(CallProps).val.count =
              (IF CallProps.count.tag = "Some" THEN <<CallProps.count.n>> ELSE <<>>)
        /\ properties_to_rrule(CallProps).val.until =
              (IF CallProps.until.tag = "Some" THEN <<CallProps.until.dt>> ELSE <<>>)
  /\ (Serialized /\ outcome.res.ok) =>
        /\ HasKey(outcome.res.val, "COUNT") <=> CallProps.count.tag = "Some"
        /\ HasKey(outcome.res.val, "UNTIL") <=> CallProps.until.tag = "Some"

C8_Witness ==
  /\ op = "string_to_rrule" /\ pc = "returned" /\ outcome.res.ok
  /\ HasKey(arg.text, "COUNT")
  /\ outcome.res.val.count = CountSome(0)

FirstConstructionError(p) ==
  IF ~FreqValid(p) THEN "Invalid frequency: " \o p.freq
  ELSE IF ~WeekStartValid(p) THEN "Invalid week start: " \o p.week_start
  ELSE IF ~MonthsValid(p) THEN "Invalid month: " \o DebugVec(p.by_month)
  ELSE "Invalid weekday: " \o p.by_weekday[First(BadWeekdays(p))].s

====
